---- MODULE Spec2Model ----
(***************************************************************************)
(* A model of the resilient network client layer of zq_data:               *)
(*   - the retrying REST executor  (core/asyncrequest.py, AsyncRest, and   *)
(*     its twin core/basecollectors.py, BaseRestCollector);                *)
(*   - the WebSocket manager       (core/asyncrequest.py, AsyncWS);        *)
(*   - the subscription registry and dispatch loops                        *)
(*     (brokers/binance/ws.py, BinanceWSCollector).                        *)
(* Every coroutine is cut at its awaits: one action is the code that runs  *)
(* between two suspension points of the asyncio event loop.                *)
(* Time is a virtual clock advanced only by asyncio.sleep.                 *)
(***************************************************************************)
EXTENDS Integers, Sequences, FiniteSets, TLC

\* ------------------------------------------------------------------ bounds
MaxRetries == 3
MaxBaseDelay == 2
MaxWait == 1
MaxCloses == 2

\* ------------------------------------------------------------- REST state
VARIABLES
    max_retries,    \* AsyncRest.max_retries
    retry_delay,    \* AsyncRest.retry_delay
    rest_pc,        \* where the one logical request of get()/post() stands
    method,         \* "GET" or "POST"
    retry_count,    \* the retry_count argument of the running _retry_request
    wait_time,      \* the value check_rate_limit() returned last
    delay,          \* the backoff delay computed last
    now,            \* virtual clock (seconds)
    rl_log,         \* one record per check_rate_limit() call: [at, wait]
    attempts,       \* the time of each session.request()
    outcomes,       \* the outcome of each attempt
    backoffs,       \* the backoff delays slept, in order
    result,         \* "none", "returned" or "raised"
    cause,          \* the attempt (1-based) whose error reached the caller, 0 if none
    rest_session,   \* AsyncRest.session: "open" or "closed"
    closes,         \* the number of close() calls made so far
    closed_pc       \* where the request stood when close() closed the session

closevars == <<rest_session, closes, closed_pc>>

restvars == <<max_retries, retry_delay, rest_pc, method, retry_count, wait_time,
              delay, now, rl_log, attempts, outcomes, backoffs, result, cause,
              closevars>>


\* ------------------------------------------------- WebSocket manager state
VARIABLES
    inited,       \* init() was called: connected_callback, process_callback and
                  \* process_binary_callback are attributes (and callables)
    ws,           \* self._ws: 0 for None, else the socket
    session,      \* self.session: 0 for None, else the session
    nsock,        \* the number of _connect() calls made so far
    maker,        \* maker[k]: the task whose _connect() call created socket k
    sock_state,   \* "none", "connecting", "failed", "open", "dead" (its session was
                  \* closed under it: transport gone, ws.closed still False), "closed"
    sess_state,   \* "none", "open", "closed"
    pc,           \* pc[t]: where task t is suspended
    own,          \* own[t]: the session/socket the running _connect frame of t created
    it,           \* it[t]: the socket the running `async for msg in self._ws` iterates
    stack,        \* stack[t]: the suspended _connect frames of t, innermost first
    data,         \* data[t]: the topic whose subscribe frame task t sends
    send_result,  \* how send() ended: "none", "sent", "lost", "reset", "connection_error"
    sent_on,      \* the socket send() wrote to, 0 if none
    frames,       \* frames[k]: the topics whose subscribe frame was transmitted on socket k
    callbacks,    \* self.callbacks: topic -> set of callbacks
    handling,     \* handling[t]: the frame type whose handler task t awaits, else "none"
    pong,         \* the pong sent last: its socket (0 if none) and whether its payload
                  \* was the payload of the PING frame it answers
    known,        \* known[k]: the topics that had a callback when socket k was established
    slept,        \* slept[t]: the seconds task t has slept since its except clause began
    waited,       \* waited[k]: the seconds slept between an exception and the _connect()
                  \* call that made socket k (0: the call followed no exception)
    ping,         \* the socket the PING frame read last came from, 0 if none
    close_called, \* a caller has tried close() on the manager
    cb_done,      \* the sockets whose connected callback has returned
    call,         \* call[t]: the handler invocation task t awaits: the handler, the
                  \* argument, and whether the frame's text parses as JSON
    closing       \* closing[t]: the session `self.session` named when task t entered
                  \* its finally clause, the one `await self.session.close()` closes

histvars == <<slept, waited, ping, close_called, cb_done, call, closing>>

wsvars == <<inited, ws, session, nsock, maker, sock_state, sess_state, pc, own, it,
            stack, data, send_result, sent_on, frames, handling, pong, known,
            histvars>>

\* ------------------------------------------- subscription and dispatch state
\* BinanceWSCollector (brokers/binance/ws.py): every subscribe_tick /
\* subscribe_kline call is a coroutine of its own, with its own receive loop.
VARIABLES
    link,         \* the collector's transport: "disconnected" or "connected"
    subscribed,   \* the topics whose subscribe frame went out on the transport
    call_pc,      \* call_pc[c]: where subscribe call c is suspended
    call_topic,   \* call_topic[c]: its key into self.callbacks (symbol, symbol_freq)
    call_cb,      \* call_cb[c]: its callback
    cur_msg,      \* cur_msg[c]: the message call c is dispatching, 0 if none
    todo,         \* todo[c]: the callbacks its `for cb in ...` has not reached yet
    iter_size,    \* iter_size[c]: the size of the set when the iteration began
    in_cb,        \* in_cb[c]: the callback call c awaits, "none" if none
    msg_topic,    \* the topic of each inbound message, in the transport's order
    snap,         \* snap[m]: the callbacks registered for m's topic when m arrived
    delivered,    \* delivered[m][cb]: how often cb was invoked with message m
    dispatched,   \* the messages whose `for` loop ran to its end
    raised        \* the <<message, callback>> invocations that raised

subvars == <<link, subscribed, call_pc, call_topic, call_cb, cur_msg, todo, iter_size,
             in_cb, msg_topic, snap, delivered, dispatched, raised>>

\* --------------------------------------------------- legacy manager state
\* BaseWSCollector (core/basecollectors.py), run by one task through conn().
VARIABLES
    l_inited,     \* init() was called: the callbacks are attributes
    l_ws,         \* self._ws: 0 for None, else the socket
    l_nsock,      \* the number of _connect() calls made so far
    l_sock,       \* l_sock[k]: "none", "connecting", "failed", "open", "closed"
    l_pc,         \* where the task is suspended
    l_it,         \* the socket the running `async for msg in self.ws` iterates
    l_stack,      \* the sockets of the receive loops suspended in `await self._reconnect()`
    l_why         \* why _check_connection() was called last: "none", "failed" (ws_connect
                  \* raised), "raised" (a callback or the loop raised), "ended" (the loop ended)

legacyvars == <<l_inited, l_ws, l_nsock, l_sock, l_pc, l_it, l_stack, l_why>>

\* ---------------------------------------------------------- REST helpers
RECURSIVE Pow2(_)
Pow2(n) == IF n = 0 THEN 1 ELSE 2 * Pow2(n - 1)

\* What one attempt can end with: a non-error status; an error status
\* (raise_for_status -> ClientResponseError); a transport error (another
\* aiohttp.ClientError); the ClientTimeout expiring (asyncio.TimeoutError,
\* which is no aiohttp.ClientError).
Outcomes == {"ok", "http_error", "net_error", "timeout"}

\* `response.raise_for_status(); return response`: no exception is raised.
SucceedsMut(o) == FALSE
Succeeds(o) == o = "ok"

\* `except aiohttp.ClientError as e`
IsClientError(o) == o \in {"http_error", "net_error"}

\* `if retry_count < self.max_retries`
CanRetryMut(rc) == rc <= max_retries
CanRetry(rc) == rc < max_retries

\* `delay = self.retry_delay * (2 ** retry_count)`
BackoffDelayMut(rc) == retry_delay * (rc + 1)
BackoffDelay(rc) == retry_delay * Pow2(rc)

\* `if wait_time > 0: await asyncio.sleep(wait_time)`
MustWaitMut(w) == FALSE
MustWait(w) == w > 0

\* The retry_count the recursive call is given.
NextRetryCount(rc) == rc + 1

\* `raise e`: e is the ClientError of the attempt the innermost
\* _retry_request frame just made, and the outer frames let it pass.
RaisedAttemptMut == Len(attempts) - retry_count
RaisedAttempt == Len(attempts)

\* session.request() works on a session that is not closed.
SessionUsableMut == TRUE
SessionUsable == rest_session = "open"

\* close(): `if self.session and not self.session.closed: await self.session.close()`
\* gives the session's state after the call.
CloseEffectMut(s) == IF s = "open" THEN "closed" ELSE "error"
CloseEffect(s) == IF s # "closed" THEN "closed" ELSE s

InitRest ==
    /\ max_retries \in 0..MaxRetries
    /\ retry_delay \in 1..MaxBaseDelay
    /\ rest_pc = "idle"
    /\ method = "none"
    /\ retry_count = 0
    /\ wait_time = 0
    /\ delay = 0
    /\ now = 0
    /\ rl_log = <<>>
    /\ attempts = <<>>
    /\ outcomes = <<>>
    /\ backoffs = <<>>
    /\ result = "none"
    /\ cause = 0
    /\ rest_session = "open"
    /\ closes = 0
    /\ closed_pc = "none"

\* get(url) / post(url): enters _retry_request(method, url) with retry_count = 0.
RestCall(m) ==
    /\ rest_pc = "idle"
    /\ rest_pc' = "check"
    /\ method' = m
    /\ retry_count' = 0
    /\ UNCHANGED <<max_retries, retry_delay, wait_time, delay, now, rl_log,
                   attempts, outcomes, backoffs, result, cause>>
    /\ UNCHANGED <<closevars, wsvars, callbacks, subvars, legacyvars>>

\* `wait_time = await self.check_rate_limit()`; the limiter is a policy a
\* subclass supplies (the default returns 0), so its answer is an input.
CheckRateLimit(w) ==
    /\ rest_pc = "check"
    /\ wait_time' = w
    /\ rl_log' = Append(rl_log, [at |-> now, wait |-> w])
    /\ rest_pc' = IF MustWait(w) THEN "wait" ELSE "send"
    /\ UNCHANGED <<max_retries, retry_delay, method, retry_count, delay, now,
                   attempts, outcomes, backoffs, result, cause>>
    /\ UNCHANGED <<closevars, wsvars, callbacks, subvars, legacyvars>>

\* `await asyncio.sleep(wait_time)`
RateWait ==
    /\ rest_pc = "wait"
    /\ now' = now + wait_time
    /\ rest_pc' = "send"
    /\ UNCHANGED <<max_retries, retry_delay, method, retry_count, wait_time, delay,
                   rl_log, attempts, outcomes, backoffs, result, cause>>
    /\ UNCHANGED <<closevars, wsvars, callbacks, subvars, legacyvars>>

\* `response = await self.session.request(method, url, **kwargs)`: the request leaves.
\* On a closed session aiohttp raises RuntimeError("Session is closed") before
\* anything is sent; it is no aiohttp.ClientError, so it leaves _retry_request.
SendRequest ==
    /\ rest_pc = "send"
    /\ IF SessionUsable
         THEN /\ attempts' = Append(attempts, now)
              /\ rest_pc' = "inflight"
              /\ UNCHANGED <<result, cause>>
         ELSE /\ rest_pc' = "done"
              /\ result' = "raised"
              /\ cause' = 0
              /\ UNCHANGED attempts
    /\ UNCHANGED <<max_retries, retry_delay, method, retry_count, wait_time, delay,
                   now, rl_log, outcomes, backoffs>>
    /\ UNCHANGED <<closevars, wsvars, callbacks, subvars, legacyvars>>

\* The attempt completes with outcome o; raise_for_status(); the except clause.
Response(o) ==
    /\ rest_pc = "inflight"
    /\ outcomes' = Append(outcomes, o)
    /\ IF Succeeds(o)
         THEN \* `return response`, back in get()/post()
              /\ rest_pc' = "parse"
              /\ UNCHANGED <<delay, result, cause>>
         ELSE IF IsClientError(o) /\ CanRetry(retry_count)
         THEN /\ rest_pc' = "backoff"
              /\ delay' = BackoffDelay(retry_count)
              /\ UNCHANGED <<result, cause>>
         ELSE \* `raise e`, or an exception the except clause does not name
              /\ rest_pc' = "done"
              /\ result' = "raised"
              /\ cause' = RaisedAttempt
              /\ UNCHANGED delay
    /\ UNCHANGED <<max_retries, retry_delay, method, retry_count, wait_time, now,
                   rl_log, attempts, backoffs>>
    /\ UNCHANGED <<closevars, wsvars, callbacks, subvars, legacyvars>>

\* `await asyncio.sleep(delay)`, then the recursive call with retry_count + 1.
Backoff ==
    /\ rest_pc = "backoff"
    /\ now' = now + delay
    /\ backoffs' = Append(backoffs, delay)
    /\ retry_count' = NextRetryCount(retry_count)
    /\ rest_pc' = "check"
    /\ UNCHANGED <<max_retries, retry_delay, method, wait_time, delay, rl_log,
                   attempts, outcomes, result, cause>>
    /\ UNCHANGED <<closevars, wsvars, callbacks, subvars, legacyvars>>

\* `async with ... as response: return await response.json()`; a body that
\* is not JSON raises out of get()/post(), outside the retry.
ParseJson(good) ==
    /\ rest_pc = "parse"
    /\ rest_pc' = "done"
    /\ result' = IF good THEN "returned" ELSE "raised"
    /\ UNCHANGED <<max_retries, retry_delay, method, retry_count, wait_time, delay,
                   now, rl_log, attempts, outcomes, backoffs, cause>>
    /\ UNCHANGED <<closevars, wsvars, callbacks, subvars, legacyvars>>

\* close(), called by any task at any moment of the request.  What the
\* closing of the connector does to an attempt in flight is aiohttp's doing:
\* the attempt stays in flight and Response draws its outcome.
RestClose ==
    /\ closes < MaxCloses
    /\ closes' = closes + 1
    /\ rest_session' = CloseEffect(rest_session)
    /\ closed_pc' = IF rest_session = "open" THEN rest_pc ELSE closed_pc
    /\ UNCHANGED <<max_retries, retry_delay, rest_pc, method, retry_count, wait_time,
                   delay, now, rl_log, attempts, outcomes, backoffs, result, cause>>
    /\ UNCHANGED <<wsvars, callbacks, subvars, legacyvars>>

NextRest ==
    \/ \E m \in {"GET", "POST"} : RestCall(m)
    \/ \E w \in 0..MaxWait : CheckRateLimit(w)
    \/ RateWait
    \/ SendRequest
    \/ \E o \in Outcomes : Response(o)
    \/ Backoff
    \/ \E good \in BOOLEAN : ParseJson(good)

\* The request with close() calls from another task interleaved.
NextRestClose ==
    \/ NextRest
    \/ RestClose


\* =========================================================== WebSocket manager
\* AsyncWS (core/asyncrequest.py).  Two tasks use one manager: "conn" runs
\* conn(), "sub" runs a subscription (brokers/binance/ws.py, subscribe_tick /
\* subscribe_kline), which sends the topic's subscribe frame through send()
\* and then registers its callback.
\* Every _connect() call creates one ClientSession and opens one socket on
\* it, so the k-th call owns session k and socket k.

MaxSockets == 3

Tasks == {"conn", "sub"}
Topics == {"BTCUSDT", "ETHUSDT"}
Callbacks == {"A", "B"}

\* The WSMsgType values _receive tells apart ("OTHER": any type it names not).
FrameTypes == {"TEXT", "BINARY", "CLOSED", "PING", "ERROR", "OTHER"}

Socks == 1..MaxSockets

\* The payloads a PING frame can carry.
Payloads == {"p1", "p2"}

\* No handler invocation is running.
NoCall == [handler |-> "none", arg |-> "none", parses |-> FALSE]

\* The handler a TEXT / BINARY frame is passed to.
HandlerForMut(ty) == "process_callback"
HandlerFor(ty) ==
    IF ty = "TEXT" THEN "process_callback" ELSE "process_binary_callback"

\* What the handler is passed: `json.loads(msg.data)`, or msg.data when
\* that raises JSONDecodeError; msg.data for a BINARY frame.
ArgForMut(ty, parses) == IF ty = "TEXT" THEN "json" ELSE "bytes"
ArgFor(ty, parses) ==
    IF ty = "TEXT" THEN (IF parses THEN "json" ELSE "raw") ELSE "bytes"

\* No pong sent yet.
NoPong == [sock |-> 0, echo |-> TRUE]

\* `await asyncio.sleep(1)` in the except clause of _connect, and
\* `await asyncio.sleep(1)` in _check_connection before it connects again.
ExceptDelay == 1
CheckDelay == 1

\* The sleep of the except clause when n _connect() calls have been made.
ErrorDelayMut(n) == ExceptDelay * n
ErrorDelay(n) == ExceptDelay

\* `self._ws.closed`
WsClosed(k) == sock_state[k] \in {"closed", "failed"}

\* `not self._ws or self._ws.closed`
NotConnected == ws = 0 \/ WsClosed(ws)

\* A transport that is open or being opened.
SockLive(k) == sock_state[k] \in {"connecting", "open"}

InitWS ==
    /\ inited \in BOOLEAN
    /\ ws = 0
    /\ session = 0
    /\ nsock = 0
    /\ maker = [k \in Socks |-> "none"]
    /\ sock_state = [k \in Socks |-> "none"]
    /\ sess_state = [k \in Socks |-> "none"]
    /\ pc = [t \in Tasks |-> "idle"]
    /\ own = [t \in Tasks |-> 0]
    /\ it = [t \in Tasks |-> 0]
    /\ stack = [t \in Tasks |-> <<>>]
    /\ data = [t \in Tasks |-> "none"]
    /\ send_result = "none"
    /\ sent_on = 0
    /\ frames = [k \in Socks |-> {}]
    /\ callbacks = [tp \in Topics |-> {}]
    /\ handling = [t \in Tasks |-> "none"]
    /\ pong = NoPong
    /\ known = [k \in Socks |-> {}]
    /\ slept = [t \in Tasks |-> 0]
    /\ waited = [k \in Socks |-> 0]
    /\ ping = 0
    /\ close_called = FALSE
    /\ cb_done = {}
    /\ call = [t \in Tasks |-> NoCall]
    /\ closing = [t \in Tasks |-> 0]

\* _connect() up to its first await: `self.session = aiohttp.ClientSession()`,
\* then `await self.session.ws_connect(self.url)`.  `push` is the frame of the
\* caller that stays suspended (none when conn() or send() calls), `socks` the
\* sockets' states when the call is made.
Connect(t, push, socks) ==
    /\ nsock < MaxSockets
    /\ nsock' = nsock + 1
    /\ session' = nsock + 1
    /\ maker' = [maker EXCEPT ![nsock + 1] = t]
    /\ sess_state' = [sess_state EXCEPT ![nsock + 1] = "open"]
    /\ sock_state' = [socks EXCEPT ![nsock + 1] = "connecting"]
    /\ pc' = [pc EXCEPT ![t] = "connecting"]
    /\ own' = [own EXCEPT ![t] = nsock + 1]
    /\ it' = [it EXCEPT ![t] = 0]
    /\ stack' = [stack EXCEPT ![t] = push \o @]
    /\ waited' = [waited EXCEPT ![nsock + 1] =
                      IF pc[t] \in {"check_connect", "check_reconnect"}
                        THEN slept[t] + CheckDelay ELSE 0]
    /\ slept' = [slept EXCEPT ![t] = 0]

\* The frame a nested _connect() call leaves suspended: in _receive at
\* `await self._reconnect()` ("recv") or in the except clause at
\* `await self._check_connection()` ("except").
Frame(t, ret) == [ret |-> ret, it |-> it[t], own |-> own[t]]

\* _reconnect(): `if self._ws and not self._ws.closed: await self._ws.close()`.
AfterWsClose ==
    IF ws # 0 /\ ~WsClosed(ws) THEN [sock_state EXCEPT ![ws] = "closed"] ELSE sock_state

\* conn(): `await self._connect()`.
Conn(t) ==
    /\ t = "conn"
    /\ pc[t] = "idle"
    /\ Connect(t, <<>>, sock_state)
    /\ UNCHANGED <<inited, known, ws, data, send_result, sent_on, frames, callbacks,
                   handling, pong>>
    /\ UNCHANGED <<restvars, subvars, legacyvars, ping, close_called, cb_done, call, closing>>

\* ws_connect succeeds: `self._ws = ...`; then the connected callback, if
\* init() set one, else straight into _receive (`async for msg in self._ws`).
ConnectOk(t) ==
    /\ pc[t] = "connecting"
    /\ sess_state[own[t]] = "open"
    /\ sock_state' = [sock_state EXCEPT ![own[t]] = "open"]
    /\ ws' = own[t]
    /\ known' = [known EXCEPT ![own[t]] = {tp \in Topics : callbacks[tp] # {}}]
    /\ IF inited
         THEN /\ pc' = [pc EXCEPT ![t] = "callback"]
              /\ UNCHANGED it
         ELSE /\ pc' = [pc EXCEPT ![t] = "recv"]
              /\ it' = [it EXCEPT ![t] = own[t]]
    /\ UNCHANGED <<inited, session, nsock, maker, sess_state, own, stack, data,
                   send_result, sent_on, frames, callbacks, handling, pong>>
    /\ UNCHANGED <<restvars, subvars, legacyvars, histvars>>

\* ws_connect raises: `except Exception`, `await asyncio.sleep(1)`.
ConnectFail(t) ==
    /\ pc[t] = "connecting"
    /\ sock_state' = [sock_state EXCEPT ![own[t]] = "failed"]
    /\ pc' = [pc EXCEPT ![t] = "except_sleep"]
    /\ UNCHANGED <<inited, known, ws, session, nsock, maker, sess_state, own, it, stack,
                   data, send_result, sent_on, frames, callbacks, handling, pong>>
    /\ UNCHANGED <<restvars, subvars, legacyvars, histvars>>

\* `await self.connected_callback()` returns or raises.  The repository
\* defines no connected callback; the one a caller passes to init() is opaque.
ConnectedCallback(t, raises) ==
    /\ pc[t] = "callback"
    /\ IF raises
         THEN /\ pc' = [pc EXCEPT ![t] = "except_sleep"]
              /\ UNCHANGED <<it, cb_done>>
         ELSE /\ ws # 0
              /\ pc' = [pc EXCEPT ![t] = "recv"]
              /\ it' = [it EXCEPT ![t] = ws]
              /\ cb_done' = cb_done \cup {own[t]}
    /\ UNCHANGED <<inited, known, ws, session, nsock, maker, sock_state, sess_state, own,
                   stack, data, send_result, sent_on, frames, callbacks, handling,
                   pong>>
    /\ UNCHANGED <<restvars, subvars, legacyvars, slept, waited, ping, close_called, call, closing>>

\* _receive: the iteration yields a TEXT or BINARY frame.  With init() called
\* the handler is awaited; without, `self.process_callback` is no attribute
\* and the AttributeError lands in _connect's except clause.
RecvData(t, ty, parses) ==
    /\ pc[t] = "recv"
    /\ sock_state[it[t]] = "open"
    /\ ty \in {"TEXT", "BINARY"}
    /\ ty = "BINARY" => ~parses
    /\ IF inited
         THEN /\ pc' = [pc EXCEPT ![t] = "handler"]
              /\ handling' = [handling EXCEPT ![t] = ty]
              /\ call' = [call EXCEPT ![t] = [handler |-> HandlerFor(ty),
                                               arg |-> ArgFor(ty, parses),
                                               parses |-> parses]]
         ELSE /\ pc' = [pc EXCEPT ![t] = "except_sleep"]
              /\ UNCHANGED <<handling, call>>
    /\ UNCHANGED <<inited, known, ws, session, nsock, maker, sock_state, sess_state, own,
                   it, stack, data, send_result, sent_on, frames, callbacks, pong>>
    /\ UNCHANGED <<restvars, subvars, legacyvars, slept, waited, ping, close_called, cb_done, closing>>

\* `await self.process_callback(data)` / `process_binary_callback(msg.data)`
\* returns (back to the loop) or raises (out of _receive, into the except clause).
HandlerDone(t, raises) ==
    /\ pc[t] = "handler"
    /\ pc' = [pc EXCEPT ![t] = IF raises THEN "except_sleep" ELSE "recv"]
    /\ handling' = [handling EXCEPT ![t] = "none"]
    /\ call' = [call EXCEPT ![t] = NoCall]
    /\ UNCHANGED <<inited, known, ws, session, nsock, maker, sock_state, sess_state, own,
                   it, stack, data, send_result, sent_on, frames, callbacks, pong>>
    /\ UNCHANGED <<restvars, subvars, legacyvars, slept, waited, ping, close_called, cb_done, closing>>

\* The payload `self._ws.pong(msg.data)` sends for a ping that carried p.
PongPayloadMut(p) == "none"
PongPayload(p) == p

\* A PING frame: `await self._ws.pong(msg.data)`, on self._ws as it is now.
RecvPing(t, p) ==
    /\ pc[t] = "recv"
    /\ sock_state[it[t]] = "open"
    /\ ping' = it[t]
    /\ IF sock_state[ws] = "open"
         THEN /\ pong' = [sock |-> ws, echo |-> PongPayload(p) = p]
              /\ UNCHANGED pc
         ELSE /\ pc' = [pc EXCEPT ![t] = "except_sleep"]
              /\ UNCHANGED pong
    /\ UNCHANGED <<inited, known, ws, session, nsock, maker, sock_state, sess_state, own,
                   it, stack, data, send_result, sent_on, frames, callbacks, handling>>
    /\ UNCHANGED <<restvars, subvars, legacyvars, slept, waited, close_called, cb_done, call, closing>>

\* An ERROR frame or a frame of an unnamed type: logged, the loop goes on.
RecvLogged(t, ty) ==
    /\ pc[t] = "recv"
    /\ sock_state[it[t]] = "open"
    /\ ty \in {"ERROR", "OTHER"}
    /\ UNCHANGED <<wsvars, callbacks>>
    /\ UNCHANGED <<restvars, subvars, legacyvars>>

\* A CLOSED frame: `await self._reconnect()`: close self._ws if it is open,
\* then a nested _connect(); this frame stays suspended inside _receive.
RecvClosed(t) ==
    /\ pc[t] = "recv"
    /\ sock_state[it[t]] = "open"
    /\ Connect(t, <<Frame(t, "recv")>>, AfterWsClose)
    /\ UNCHANGED <<inited, known, ws, data, send_result, sent_on, frames, callbacks,
                   handling, pong>>
    /\ UNCHANGED <<restvars, subvars, legacyvars, ping, close_called, cb_done, call, closing>>

\* The iteration ends: the peer closed the socket, or the socket is no longer
\* open.  _receive returns and _connect goes to its finally clause.
RecvEnd(t) ==
    /\ pc[t] = "recv"
    /\ sock_state' = [sock_state EXCEPT ![it[t]] = IF @ = "open" THEN "closed" ELSE @]
    /\ pc' = [pc EXCEPT ![t] = "finally"]
    /\ closing' = [closing EXCEPT ![t] = session]
    /\ UNCHANGED <<inited, known, ws, session, nsock, maker, sess_state, own, it, stack,
                   data, send_result, sent_on, frames, callbacks, handling, pong>>
    /\ UNCHANGED <<restvars, subvars, legacyvars, slept, waited, ping, close_called, cb_done, call>>

\* The except clause after `await asyncio.sleep(1)`: _check_connection().
\* No socket yet, or a closed one: one more sleep, then connect again;
\* an open one: return, and _connect goes to its finally clause.
ExceptSleep(t) ==
    /\ pc[t] = "except_sleep"
    /\ pc' = [pc EXCEPT ![t] = IF ws = 0 THEN "check_connect"
                                ELSE IF WsClosed(ws) THEN "check_reconnect"
                                ELSE "finally"]
    /\ slept' = [slept EXCEPT ![t] = IF NotConnected THEN ErrorDelay(nsock) ELSE 0]
    /\ closing' = [closing EXCEPT ![t] = IF NotConnected THEN @ ELSE session]
    /\ UNCHANGED <<inited, known, ws, session, nsock, maker, sock_state, sess_state, own,
                   it, stack, data, send_result, sent_on, frames, callbacks, handling,
                   pong>>
    /\ UNCHANGED <<restvars, subvars, legacyvars, waited, ping, close_called, cb_done, call>>

\* _check_connection, `not self._ws`: after the sleep, `await self._connect()`.
CheckConnect(t) ==
    /\ pc[t] = "check_connect"
    /\ Connect(t, <<Frame(t, "except")>>, sock_state)
    /\ UNCHANGED <<inited, known, ws, data, send_result, sent_on, frames, callbacks,
                   handling, pong>>
    /\ UNCHANGED <<restvars, subvars, legacyvars, ping, close_called, cb_done, call, closing>>

\* _check_connection, `self._ws.closed`: after the sleep, `await self._reconnect()`.
CheckReconnect(t) ==
    /\ pc[t] = "check_reconnect"
    /\ Connect(t, <<Frame(t, "except")>>, AfterWsClose)
    /\ UNCHANGED <<inited, known, ws, data, send_result, sent_on, frames, callbacks,
                   handling, pong>>
    /\ UNCHANGED <<restvars, subvars, legacyvars, ping, close_called, cb_done, call, closing>>

\* Where a task goes on when its outermost _connect() returns.
AfterConnect(t) == IF t = "conn" THEN "done" ELSE "transmit"

\* `finally: await self.session.close()`: closes the session self.session
\* named when the clause was entered; its socket loses its transport.  Then
\* _connect returns: into the frame below (back in its receive loop, or on
\* to its own finally, which names self.session as it is then), or to
\* conn() / send().
Finally(t) ==
    /\ pc[t] = "finally"
    /\ sess_state' = [sess_state EXCEPT ![closing[t]] = "closed"]
    /\ sock_state' = [sock_state EXCEPT ![closing[t]] = IF @ = "open" THEN "dead" ELSE @]
    /\ IF stack[t] = <<>>
         THEN /\ pc' = [pc EXCEPT ![t] = AfterConnect(t)]
              /\ closing' = [closing EXCEPT ![t] = 0]
              /\ UNCHANGED <<own, it, stack>>
         ELSE /\ pc' = [pc EXCEPT ![t] = IF Head(stack[t]).ret = "recv"
                                          THEN "recv" ELSE "finally"]
              /\ own' = [own EXCEPT ![t] = Head(stack[t]).own]
              /\ it' = [it EXCEPT ![t] = Head(stack[t]).it]
              /\ stack' = [stack EXCEPT ![t] = Tail(@)]
              /\ closing' = [closing EXCEPT ![t] = IF Head(stack[t]).ret = "recv"
                                                    THEN 0 ELSE session]
    /\ UNCHANGED <<inited, known, ws, session, nsock, maker, data, send_result, sent_on,
                   frames, callbacks, handling, pong>>
    /\ UNCHANGED <<restvars, subvars, legacyvars, slept, waited, ping, close_called, cb_done, call>>

\* send(), second half: `if self._ws and not self._ws.closed:` write the data,
\* else raise ConnectionError.  A write to a socket whose transport is gone
\* raises ConnectionResetError or is dropped, by the aiohttp version.
Transmit(tp, dropped) ==
    /\ IF ws # 0 /\ ~WsClosed(ws)
         THEN IF sock_state[ws] = "open"
                THEN /\ frames' = [frames EXCEPT ![ws] = @ \cup {tp}]
                     /\ send_result' = "sent"
                     /\ sent_on' = ws
                ELSE /\ send_result' = IF dropped THEN "lost" ELSE "reset"
                     /\ UNCHANGED <<frames, sent_on>>
         ELSE /\ send_result' = "connection_error"
              /\ UNCHANGED <<frames, sent_on>>

\* subscribe_tick(symbol, cb) / subscribe_kline: `await self.ws.send(frame)`,
\* i.e. send(data) from its start.  Not connected: `await self._connect()`;
\* connected: the write follows without a suspension.
Send(t, tp, dropped) ==
    /\ t = "sub"
    /\ pc[t] = "idle"
    /\ data' = [data EXCEPT ![t] = tp]
    /\ IF NotConnected
         THEN /\ Connect(t, <<>>, sock_state)
              /\ UNCHANGED <<send_result, sent_on, frames>>
         ELSE /\ Transmit(tp, dropped)
              /\ pc' = [pc EXCEPT ![t] = "sent"]
              /\ UNCHANGED <<session, nsock, maker, sock_state, sess_state, own, it,
                             stack, slept, waited>>
    /\ UNCHANGED <<inited, known, ws, callbacks, handling, pong>>
    /\ UNCHANGED <<restvars, subvars, legacyvars, ping, close_called, cb_done, call, closing>>

\* send() after its `await self._connect()` has returned.
SendAfterConnect(t, dropped) ==
    /\ pc[t] = "transmit"
    /\ Transmit(data[t], dropped)
    /\ pc' = [pc EXCEPT ![t] = "sent"]
    /\ UNCHANGED <<inited, known, ws, session, nsock, maker, sock_state, sess_state, own,
                   it, stack, data, callbacks, handling, pong>>
    /\ UNCHANGED <<restvars, subvars, legacyvars, histvars>>

\* subscribe_tick after send returned: `self.callbacks[symbol].add(callback)`;
\* an exception of send leaves subscribe_tick before that line.
Register(t, cb) ==
    /\ pc[t] = "sent"
    /\ pc' = [pc EXCEPT ![t] = "done"]
    /\ callbacks' = IF send_result \in {"sent", "lost"}
                      THEN [callbacks EXCEPT ![data[t]] = @ \cup {cb}]
                      ELSE callbacks
    /\ UNCHANGED <<inited, known, ws, session, nsock, maker, sock_state, sess_state, own,
                   it, stack, data, send_result, sent_on, frames, handling, pong, known>>
    /\ UNCHANGED <<restvars, subvars, legacyvars, histvars>>

NextWS ==
    \/ \E t \in Tasks : Conn(t)
    \/ \E t \in Tasks : ConnectOk(t)
    \/ \E t \in Tasks : ConnectFail(t)
    \/ \E t \in Tasks, raises \in BOOLEAN : ConnectedCallback(t, raises)
    \/ \E t \in Tasks, ty \in FrameTypes, parses \in BOOLEAN : RecvData(t, ty, parses)
    \/ \E t \in Tasks, raises \in BOOLEAN : HandlerDone(t, raises)
    \/ \E t \in Tasks, p \in Payloads : RecvPing(t, p)
    \/ \E t \in Tasks, ty \in FrameTypes : RecvLogged(t, ty)
    \/ \E t \in Tasks : RecvClosed(t)
    \/ \E t \in Tasks : RecvEnd(t)
    \/ \E t \in Tasks : ExceptSleep(t)
    \/ \E t \in Tasks : CheckConnect(t)
    \/ \E t \in Tasks : CheckReconnect(t)
    \/ \E t \in Tasks : Finally(t)
    \/ \E t \in Tasks, tp \in Topics, dropped \in BOOLEAN : Send(t, tp, dropped)
    \/ \E t \in Tasks, dropped \in BOOLEAN : SendAfterConnect(t, dropped)
    \/ \E t \in Tasks, cb \in Callbacks : Register(t, cb)

\* The manager is Connected (an open socket in self._ws) or Reconnecting (a
\* task is in the except clause of _connect or in _check_connection).
ConnectedOrReconnecting ==
    \/ ws # 0 /\ sock_state[ws] = "open"
    \/ \E t \in Tasks : pc[t] \in {"except_sleep", "check_connect", "check_reconnect"}

\* A caller tries `await manager.close()`.  AsyncWS defines no close (nor
\* any other way to stop): the call raises AttributeError in the caller and
\* the manager's tasks go on as they were.
Close ==
    /\ ~close_called
    /\ ConnectedOrReconnecting
    /\ close_called' = TRUE
    /\ UNCHANGED <<inited, ws, session, nsock, maker, sock_state, sess_state, pc, own,
                   it, stack, data, send_result, sent_on, frames, callbacks, handling,
                   pong, known, slept, waited, ping, cb_done, call, closing>>
    /\ UNCHANGED <<restvars, subvars, legacyvars>>

\* The manager with a close() attempt at any moment.
NextWSClose ==
    \/ NextWS
    \/ Close

\* ================================================= subscription and dispatch
\* BinanceWSCollector.subscribe_tick / subscribe_kline (brokers/binance/ws.py).
\* Its base class (zq_data.core.collectors) is not part of the sources: its
\* connect(), ws.send(), ws.recv() and disconnect() follow the specification's
\* ConnectionManager: one transport, inbound messages handed out in the
\* transport's order, each to one waiting recv().

MaxCalls == 2
MaxMsgs == 2

Calls == 1..MaxCalls
Msgs == 1..MaxMsgs

InitSub ==
    /\ link = "disconnected"
    /\ subscribed = {}
    /\ call_pc = [c \in Calls |-> "idle"]
    /\ call_topic = [c \in Calls |-> "none"]
    /\ call_cb = [c \in Calls |-> "none"]
    /\ cur_msg = [c \in Calls |-> 0]
    /\ todo = [c \in Calls |-> {}]
    /\ iter_size = [c \in Calls |-> 0]
    /\ in_cb = [c \in Calls |-> "none"]
    /\ msg_topic = <<>>
    /\ snap = [m \in Msgs |-> {}]
    /\ delivered = [m \in Msgs |-> [cb \in Callbacks |-> 0]]
    /\ dispatched = {}
    /\ raised = {}

\* `await self.connect()`: the transport is up when it returns.
TransportConnect == "connected"

\* `await self.disconnect()`: the transport is closed, and with it every
\* subscription the server held for it.
TransportDisconnect == "disconnected"

\* Topics are alike and callbacks are alike to the collector, so the first
\* call's arguments are fixed: every other run is one of these renamed.
FirstTopic == "BTCUSDT"
FirstCallback == "A"

\* subscribe_tick(symbol, callback) / subscribe_kline(symbol, freq, callback)
\* up to `await self.connect()`.
Subscribe(c, tp, cb) ==
    /\ call_pc[c] = "idle"
    /\ \A d \in Calls : d < c => call_pc[d] # "idle"
    /\ c = 1 => (tp = FirstTopic /\ cb = FirstCallback)
    /\ call_topic' = [call_topic EXCEPT ![c] = tp]
    /\ call_cb' = [call_cb EXCEPT ![c] = cb]
    /\ link' = TransportConnect
    /\ call_pc' = [call_pc EXCEPT ![c] = "send"]
    /\ UNCHANGED <<subscribed, cur_msg, todo, iter_size, in_cb, msg_topic, snap,
                   delivered, dispatched, raised, callbacks>>
    /\ UNCHANGED <<restvars, wsvars, legacyvars>>

\* The key of self.callbacks a call registers under and dispatches to.
RegistryKey(c) == call_topic[c]

\* `self.callbacks[symbol].add(callback)` on the set s of the key.
RegisteredMut(s, cb) == {cb}
Registered(s, cb) == s \cup {cb}

\* `await self.ws.send(json.dumps(subscribe_msg))`, then
\* `self.callbacks[symbol].add(callback)` and into the loop at
\* `await self.ws.recv()`.  On a transport closed meanwhile send raises out of
\* the call.
SendSubscribe(c) ==
    /\ call_pc[c] = "send"
    /\ IF link = "connected"
         THEN /\ subscribed' = subscribed \cup {call_topic[c]}
              /\ callbacks' = [callbacks EXCEPT ![RegistryKey(c)] =
                                    Registered(@, call_cb[c])]
              /\ call_pc' = [call_pc EXCEPT ![c] = "recv"]
         ELSE /\ call_pc' = [call_pc EXCEPT ![c] = "stopped"]
              /\ UNCHANGED <<subscribed, callbacks>>
    /\ UNCHANGED <<link, call_topic, call_cb, cur_msg, todo, iter_size, in_cb,
                   msg_topic, snap, delivered, dispatched, raised>>
    /\ UNCHANGED <<restvars, wsvars, legacyvars>>

\* The callbacks the loop of call c iterates: `self.callbacks[symbol]`.
DispatchSet(c) == callbacks[RegistryKey(c)]

\* `msg = await self.ws.recv()` returns the next inbound message, of a topic
\* subscribed on this transport, to the loop of call c; json.loads and the
\* DataFrame; `for cb in self.callbacks[symbol]` begins.
Recv(c, tp) ==
    /\ call_pc[c] = "recv"
    /\ link = "connected"
    /\ tp \in subscribed
    /\ Len(msg_topic) < MaxMsgs
    /\ msg_topic' = Append(msg_topic, tp)
    /\ snap' = [snap EXCEPT ![Len(msg_topic) + 1] = callbacks[tp]]
    /\ cur_msg' = [cur_msg EXCEPT ![c] = Len(msg_topic) + 1]
    /\ todo' = [todo EXCEPT ![c] = DispatchSet(c)]
    /\ iter_size' = [iter_size EXCEPT ![c] = Cardinality(DispatchSet(c))]
    /\ call_pc' = [call_pc EXCEPT ![c] = "iter"]
    /\ UNCHANGED <<link, subscribed, call_topic, call_cb, in_cb, delivered,
                   dispatched, raised, callbacks>>
    /\ UNCHANGED <<restvars, wsvars, legacyvars>>

\* `await self.ws.recv()` on a transport that was closed: it raises, and the
\* loop's except clause runs.
RecvClosedTransport(c) ==
    /\ call_pc[c] = "recv"
    /\ link = "disconnected"
    /\ call_pc' = [call_pc EXCEPT ![c] = "disconnect"]
    /\ UNCHANGED <<link, subscribed, call_topic, call_cb, cur_msg, todo, iter_size,
                   in_cb, msg_topic, snap, delivered, dispatched, raised, callbacks>>
    /\ UNCHANGED <<restvars, wsvars, legacyvars>>

\* One step of `for cb in self.callbacks[symbol]: await cb(df)`: a set that
\* changed size since the iteration began raises RuntimeError; an exhausted
\* iteration goes back to recv(); else the next callback is invoked.
IterNext(c, cb) ==
    /\ call_pc[c] = "iter"
    /\ IF Cardinality(DispatchSet(c)) # iter_size[c]
         THEN /\ call_pc' = [call_pc EXCEPT ![c] = "disconnect"]
              /\ UNCHANGED <<todo, in_cb, delivered, dispatched, cur_msg>>
         ELSE IF todo[c] = {}
         THEN /\ call_pc' = [call_pc EXCEPT ![c] = "recv"]
              /\ dispatched' = dispatched \cup {cur_msg[c]}
              /\ cur_msg' = [cur_msg EXCEPT ![c] = 0]
              /\ UNCHANGED <<todo, in_cb, delivered>>
         ELSE /\ cb \in todo[c]
              /\ todo' = [todo EXCEPT ![c] = @ \ {cb}]
              /\ in_cb' = [in_cb EXCEPT ![c] = cb]
              /\ delivered' = [delivered EXCEPT ![cur_msg[c]][cb] = @ + 1]
              /\ call_pc' = [call_pc EXCEPT ![c] = "in_cb"]
              /\ UNCHANGED <<dispatched, cur_msg>>
    /\ UNCHANGED <<link, subscribed, call_topic, call_cb, iter_size, msg_topic, snap,
                   raised, callbacks>>
    /\ UNCHANGED <<restvars, wsvars, legacyvars>>

\* Where the loop goes when `await cb(df)` raises: `except Exception`,
\* `await self.disconnect()`, `break`.
OnCallbackError == "disconnect"

\* `await cb(df)` returns, or raises into the loop's except clause.
CallbackDone(c, raises) ==
    /\ call_pc[c] = "in_cb"
    /\ in_cb' = [in_cb EXCEPT ![c] = "none"]
    /\ IF raises
         THEN /\ raised' = raised \cup {<<cur_msg[c], in_cb[c]>>}
              /\ call_pc' = [call_pc EXCEPT ![c] = OnCallbackError]
         ELSE /\ call_pc' = [call_pc EXCEPT ![c] = "iter"]
              /\ UNCHANGED raised
    /\ UNCHANGED <<link, subscribed, call_topic, call_cb, cur_msg, todo, iter_size,
                   msg_topic, snap, delivered, dispatched, callbacks>>
    /\ UNCHANGED <<restvars, wsvars, legacyvars>>

\* `print(...)`, `await self.disconnect()`, `break`: the call ends.
Disconnect(c) ==
    /\ call_pc[c] = "disconnect"
    /\ link' = TransportDisconnect
    /\ subscribed' = {}
    /\ call_pc' = [call_pc EXCEPT ![c] = "stopped"]
    /\ UNCHANGED <<call_topic, call_cb, cur_msg, todo, iter_size, in_cb, msg_topic,
                   snap, delivered, dispatched, raised, callbacks>>
    /\ UNCHANGED <<restvars, wsvars, legacyvars>>

NextSub ==
    \/ \E c \in Calls, tp \in Topics, cb \in Callbacks : Subscribe(c, tp, cb)
    \/ \E c \in Calls : SendSubscribe(c)
    \/ \E c \in Calls, tp \in Topics : Recv(c, tp)
    \/ \E c \in Calls : RecvClosedTransport(c)
    \/ \E c \in Calls, cb \in Callbacks : IterNext(c, cb)
    \/ \E c \in Calls, raises \in BOOLEAN : CallbackDone(c, raises)
    \/ \E c \in Calls : Disconnect(c)

\* ==================================================== legacy BaseWSCollector
\* core/basecollectors.py: the manager without sleeps and without a finally
\* clause.  Each _connect() makes a session of its own and never closes it.
MaxLegacySockets == 4

LegacySocks == 1..MaxLegacySockets

InitLegacy ==
    /\ l_inited \in BOOLEAN
    /\ l_ws = 0
    /\ l_nsock = 0
    /\ l_sock = [k \in LegacySocks |-> "none"]
    /\ l_pc = "idle"
    /\ l_it = 0
    /\ l_stack = <<>>
    /\ l_why = "none"

\* `self._ws.closed` of the socket held in self._ws.
LegacyWsClosed == l_sock[l_ws] = "closed"

\* _connect() up to `await session.ws_connect(...)`; `push` holds the socket
\* of the receive loop that stays suspended in `await self._reconnect()`.
LegacyConnect(push) ==
    /\ l_nsock < MaxLegacySockets
    /\ l_nsock' = l_nsock + 1
    /\ l_sock' = [l_sock EXCEPT ![l_nsock + 1] = "connecting"]
    /\ l_pc' = "connecting"
    /\ l_stack' = push \o l_stack

\* A coroutine of the manager returns to its caller.  _check_connection() is
\* the last statement of on_disconnected() and of the except clause, which are
\* the last of _connect(), called last by _reconnect(): the return goes to the
\* receive loop suspended in the CLOSED branch, or ends conn().
LegacyReturn ==
    IF l_stack = <<>>
      THEN /\ l_pc' = "done"
           /\ UNCHANGED <<l_it, l_stack>>
      ELSE /\ l_pc' = "recv"
           /\ l_it' = Head(l_stack)
           /\ l_stack' = Tail(l_stack)

\* conn(): `await self._connect()`.
LegacyConn ==
    /\ l_pc = "idle"
    /\ LegacyConnect(<<>>)
    /\ UNCHANGED <<l_inited, l_ws, l_it, l_why>>
    /\ UNCHANGED <<restvars, wsvars, callbacks, subvars>>

\* ws_connect returns the socket, stored in self._ws.
LegacyConnectOk ==
    /\ l_pc = "connecting"
    /\ l_sock' = [l_sock EXCEPT ![l_nsock] = "open"]
    /\ l_ws' = l_nsock
    /\ l_pc' = "callback"
    /\ UNCHANGED <<l_inited, l_nsock, l_it, l_stack, l_why>>
    /\ UNCHANGED <<restvars, wsvars, callbacks, subvars>>

\* ws_connect raises; self._ws keeps what it held; the except clause prints
\* and calls _check_connection().
LegacyConnectFail ==
    /\ l_pc = "connecting"
    /\ l_sock' = [l_sock EXCEPT ![l_nsock] = "failed"]
    /\ l_pc' = "check"
    /\ l_why' = "failed"
    /\ UNCHANGED <<l_inited, l_ws, l_nsock, l_it, l_stack>>
    /\ UNCHANGED <<restvars, wsvars, callbacks, subvars>>

\* `await self.connected_callback()`: without init() the attribute does not
\* exist and the lookup raises; a raising callback goes to the except clause
\* too; else _receive() starts to iterate self.ws.
LegacyConnectedCallback(raises) ==
    /\ l_pc = "callback"
    /\ ~l_inited => raises
    /\ IF raises
         THEN /\ l_pc' = "check"
              /\ l_why' = "raised"
              /\ UNCHANGED l_it
         ELSE /\ l_pc' = "recv"
              /\ l_it' = l_ws
              /\ UNCHANGED l_why
    /\ UNCHANGED <<l_inited, l_ws, l_nsock, l_sock, l_stack>>
    /\ UNCHANGED <<restvars, wsvars, callbacks, subvars>>

\* A TEXT or BINARY frame: its handler is awaited.
LegacyRecvData ==
    /\ l_pc = "recv"
    /\ l_sock[l_it] = "open"
    /\ l_pc' = "handler"
    /\ UNCHANGED <<l_inited, l_ws, l_nsock, l_sock, l_it, l_stack, l_why>>
    /\ UNCHANGED <<restvars, wsvars, callbacks, subvars>>

\* The handler returns, and the loop reads on, or raises: the exception
\* leaves _receive and reaches the except clause of _connect.
LegacyHandlerDone(raises) ==
    /\ l_pc = "handler"
    /\ IF raises
         THEN /\ l_pc' = "check"
              /\ l_why' = "raised"
         ELSE /\ l_pc' = "recv"
              /\ UNCHANGED l_why
    /\ UNCHANGED <<l_inited, l_ws, l_nsock, l_sock, l_it, l_stack>>
    /\ UNCHANGED <<restvars, wsvars, callbacks, subvars>>

\* A PING frame: `await self._ws.send(WSMsgType.PONG)`; the socket has no
\* method `send`, the attribute lookup raises.
LegacyRecvPing ==
    /\ l_pc = "recv"
    /\ l_sock[l_it] = "open"
    /\ l_pc' = "check"
    /\ l_why' = "raised"
    /\ UNCHANGED <<l_inited, l_ws, l_nsock, l_sock, l_it, l_stack>>
    /\ UNCHANGED <<restvars, wsvars, callbacks, subvars>>

\* An ERROR frame or one of another type is logged.
LegacyRecvLogged ==
    /\ l_pc = "recv"
    /\ l_sock[l_it] = "open"
    /\ UNCHANGED legacyvars
    /\ UNCHANGED <<restvars, wsvars, callbacks, subvars>>

\* A CLOSED frame: the socket is closed; `await self._reconnect()` calls
\* _connect() with this loop suspended.
LegacyRecvClosed ==
    /\ l_pc = "recv"
    /\ l_sock[l_it] = "open"
    /\ l_nsock < MaxLegacySockets
    /\ l_nsock' = l_nsock + 1
    /\ l_sock' = [l_sock EXCEPT ![l_it] = "closed", ![l_nsock + 1] = "connecting"]
    /\ l_pc' = "connecting"
    /\ l_stack' = <<l_it>> \o l_stack
    /\ UNCHANGED <<l_inited, l_ws, l_it, l_why>>
    /\ UNCHANGED <<restvars, wsvars, callbacks, subvars>>

\* The iteration ends: the peer dropped the connection, or the socket was
\* closed already.  `await self.on_disconnected()` calls _check_connection().
LegacyRecvEnd ==
    /\ l_pc = "recv"
    /\ l_sock' = [l_sock EXCEPT ![l_it] = "closed"]
    /\ l_pc' = "check"
    /\ l_why' = "ended"
    /\ UNCHANGED <<l_inited, l_ws, l_nsock, l_it, l_stack>>
    /\ UNCHANGED <<restvars, wsvars, callbacks, subvars>>

\* _check_connection(): no socket yet: a warning and return; a closed socket:
\* _reconnect(); an open one: return.
LegacyCheckConnection ==
    /\ l_pc = "check"
    /\ IF l_ws = 0
         THEN /\ LegacyReturn
              /\ UNCHANGED <<l_nsock, l_sock>>
         ELSE IF LegacyWsClosed
         THEN /\ LegacyConnect(<<>>)
              /\ UNCHANGED l_it
         ELSE /\ LegacyReturn
              /\ UNCHANGED <<l_nsock, l_sock>>
    /\ UNCHANGED <<l_inited, l_ws, l_why>>
    /\ UNCHANGED <<restvars, wsvars, callbacks, subvars>>

NextLegacy ==
    \/ LegacyConn
    \/ LegacyConnectOk
    \/ LegacyConnectFail
    \/ \E raises \in BOOLEAN : LegacyConnectedCallback(raises)
    \/ LegacyRecvData
    \/ \E raises \in BOOLEAN : LegacyHandlerDone(raises)
    \/ LegacyRecvPing
    \/ LegacyRecvLogged
    \/ LegacyRecvClosed
    \/ LegacyRecvEnd
    \/ LegacyCheckConnection

\* ============================================================ specifications
vars == <<restvars, wsvars, callbacks, subvars, legacyvars>>

Init == InitRest /\ InitWS /\ InitSub /\ InitLegacy

\* The three components share no state but the registry, so each is checked
\* with the others at rest.
InitRestOnly == Init /\ inited = FALSE /\ l_inited = FALSE

InitWSOnly == Init /\ max_retries = 0 /\ retry_delay = 1 /\ l_inited = FALSE

InitSubOnly == Init /\ inited = FALSE /\ max_retries = 0 /\ retry_delay = 1 /\ l_inited = FALSE

InitLegacyOnly == Init /\ inited = FALSE /\ max_retries = 0 /\ retry_delay = 1

\* The REST executor running one logical request.
SpecRest == InitRestOnly /\ [][NextRest]_vars

\* The event loop runs every ready coroutine and every sleep and request
\* ends (the session's ClientTimeout bounds a request).
SpecRestFair == SpecRest /\ WF_vars(NextRest)

\* The REST executor with close() called concurrently.
SpecRestClose == InitRestOnly /\ [][NextRestClose]_vars

\* The manager with conn() and one subscription running against it.
SpecWS == InitWSOnly /\ [][NextWS]_vars

\* The WebSocket manager whose user also tries to close it.
SpecWSClose == InitWSOnly /\ [][NextWSClose]_vars

\* The collector with its subscribe calls and their receive loops.
SpecSub == InitSubOnly /\ [][NextSub]_vars

\* The legacy manager run by conn().
SpecLegacy == InitLegacyOnly /\ [][NextLegacy]_vars

\* ================================================================ claims

\* What the specification calls a transient failure of a server or of the
\* network: an error status or a transport error.
ServerOrNetworkFailure(o) == o \in {"http_error", "net_error"}

AllAttemptsFailed ==
    /\ outcomes # <<>>
    /\ \A i \in 1..Len(outcomes) : ServerOrNetworkFailure(outcomes[i])

NoRateLimitWait == \A i \in 1..Len(rl_log) : rl_log[i].wait = 0

C2_BoundedRetries ==
    /\ [](retry_count <= max_retries /\ Len(attempts) <= max_retries + 1)
    /\ <>(rest_pc = "done" /\ result \in {"returned", "raised"})
    /\ [][rest_pc = "done" => (attempts' = attempts /\ rest_pc' = "done")]_vars

C2_Witness ==
    /\ rest_pc = "done"
    /\ result = "raised"
    /\ max_retries = 2
    /\ retry_count = max_retries
    /\ outcomes = <<"net_error", "http_error", "net_error">>

\* C3: when the first attempt ends with a non-error status, that attempt is
\* the only one, no backoff (and no time at all) passes between it and the
\* return, no attempt's error reaches the caller, and the response goes to
\* the JSON parser, whose value get()/post() return.
C3_SuccessFirstTry ==
    (outcomes # <<>> /\ outcomes[1] = "ok") =>
        /\ Len(attempts) = 1
        /\ Len(outcomes) = 1
        /\ backoffs = <<>>
        /\ retry_count = 0
        /\ now = attempts[1]
        /\ cause = 0
        /\ rest_pc \in {"parse", "done"}

C3_Witness ==
    /\ rest_pc = "done"
    /\ result = "returned"
    /\ outcomes = <<"ok">>
    /\ Len(attempts) = 1

\* C4: check_rate_limit is consulted exactly once before every attempt, the
\* first and each retry (after the previous attempt has ended), and the
\* attempt leaves exactly when the returned duration has passed: at once
\* for 0, after the whole wait for a positive duration.
C4_RateLimitBeforeEachAttempt ==
    /\ Len(rl_log) = Len(attempts) + (IF rest_pc \in {"wait", "send"} THEN 1 ELSE 0)
    /\ \A i \in 1..Len(attempts) :
           /\ attempts[i] = rl_log[i].at + rl_log[i].wait
           /\ i > 1 => rl_log[i].at >= attempts[i - 1]
    /\ rest_pc = "send" => now = rl_log[Len(rl_log)].at + rl_log[Len(rl_log)].wait

C4_Witness ==
    /\ Len(attempts) = 3
    /\ rl_log[1].wait = 0
    /\ rl_log[2].wait > 0
    /\ rl_log[3].wait > 0
    /\ attempts[2] = rl_log[2].at + rl_log[2].wait

\* Socket k was established (ws_connect returned it) at some time.
Established(k) == sock_state[k] \in {"open", "dead", "closed"}

\* Socket k is a reconnect: an earlier socket of the manager was established.
Reconnected(k) == \E j \in Socks : j < k /\ Established(j)

\* C5: whenever a message of a reconnected socket is being dispatched (its
\* handler runs), every topic that had at least one registered callback when
\* the socket was established has had its subscribe frame sent on that socket.
C5_ResubscribedBeforeDispatch ==
    \A t \in Tasks :
        (pc[t] = "handler" /\ Reconnected(it[t])) =>
            known[it[t]] \subseteq frames[it[t]]

\* C6: a message whose dispatch has run to its end was delivered exactly once
\* to every callback registered for its topic when it arrived and to no
\* other callback, and no message is ever delivered to a callback that is
\* not registered for the message's topic.
C6_ExactlyOncePerTopic ==
    /\ \A m \in dispatched : \A cb \in Callbacks :
           delivered[m][cb] = IF cb \in snap[m] THEN 1 ELSE 0
    /\ \A m \in 1..Len(msg_topic) : \A cb \in Callbacks :
           delivered[m][cb] > 0 => cb \in callbacks[msg_topic[m]]

\* C7: when a callback has raised for a message, the loop dispatching that
\* message is still dispatching (it has not gone to disconnect() and out of
\* the loop), every sibling callback has received the message or is still to
\* come in that dispatch, and the transport is connected.
C7_CallbackIsolation ==
    \A p \in raised : \A c \in Calls :
        cur_msg[c] = p[1] =>
            /\ call_pc[c] \in {"iter", "in_cb"}
            /\ \A cb \in DispatchSet(c) : delivered[p[1]][cb] = 1 \/ cb \in todo[c]
            /\ link = "connected"

\* The connect that send() triggered reached Connected.
SendConnected == \E k \in Socks : maker[k] = "sub" /\ Established(k)

\* C8: a send() that had to connect, and whose connect reached Connected,
\* ends with the data written to the socket it opened.
C8_SendAfterConnect ==
    (pc["sub"] \in {"sent", "done"} /\ SendConnected) =>
        /\ send_result = "sent"
        /\ maker[sent_on] = "sub"

\* The sockets the _connect() calls made inside send() tried to open.
SendAttempts == {k \in Socks : maker[k] = "sub"}

\* C9: when the connect attempt that send() triggers fails, it stays the only
\* connect attempt of that send(), nothing is written to any socket, and
\* send() ends only by raising its ConnectionError.
C9_OneConnectAttempt ==
    \A k \in SendAttempts :
        (sock_state[k] = "failed" /\ \A j \in SendAttempts : k <= j) =>
            /\ SendAttempts = {k}
            /\ sent_on = 0
            /\ pc["sub"] \in {"sent", "done"} => send_result = "connection_error"

\* C10: at most one socket of the manager is open or being opened.
C10_OneTransport == Cardinality({k \in Socks : SockLive(k)}) <= 1

\* C11: whenever the except clause of _connect has caught an exception (of
\* ws_connect, of the connected callback, of a message handler, of the
\* receive loop), the task goes on to a new connect attempt: it never
\* leaves the except clause for the finally clause and the return.
C11_ExceptionReconnects ==
    [][\A t \in Tasks :
           (pc[t] = "except_sleep" /\ pc'[t] # "except_sleep") =>
               pc'[t] \in {"check_connect", "check_reconnect"}]_vars

\* Task t is the only one that has called _connect() so far.
Solo(t) == \A k \in Socks : maker[k] \in {t, "none"}

\* The one delay between a failed connect attempt and the next attempt.
ReconnectDelay == ExceptDelay + CheckDelay

C13_NoConnectAfterClose ==
    [][close_called =>
           \A t \in Tasks :
               pc[t] \notin {"idle", "connecting"} => pc'[t] # "connecting"]_vars

\* C16: the PING frame read last has been answered by a pong on the socket
\* it came from, carrying its payload, and no PING frame is ever handed to
\* the text or binary handler.
C16_PingAnswered ==
    /\ ping # 0 => pong = [sock |-> ping, echo |-> TRUE]
    /\ \A t \in Tasks : handling[t] \in {"none", "TEXT", "BINARY"}

\* C14: while a callback invoked with a message is still running in one
\* loop of a topic, no callback has been invoked with a later message of
\* that topic by another loop of the topic.
C14_InOrderPerTopic ==
    \A c, d \in Calls :
        (/\ call_pc[c] = "in_cb"
         /\ cur_msg[d] # 0
         /\ cur_msg[c] < cur_msg[d]
         /\ RegistryKey(c) = msg_topic[cur_msg[c]]
         /\ RegistryKey(d) = msg_topic[cur_msg[d]]
         /\ RegistryKey(c) = RegistryKey(d)) =>
            \A cb \in Callbacks : delivered[cur_msg[d]][cb] = 0

\* The calls of key tp that are in their receive loop (they registered
\* their callback), and those that are past their send.
LoopingCalls(tp) ==
    {c \in Calls : call_topic[c] = tp
                   /\ call_pc[c] \in {"recv", "iter", "in_cb", "disconnect"}}
PastSend(tp) ==
    {c \in Calls : call_topic[c] = tp /\ call_pc[c] \notin {"idle", "send"}}

RequestState == <<max_retries, retry_delay, rest_pc, method, retry_count, wait_time,
                  delay, now, rl_log, attempts, outcomes, backoffs, result, cause>>

\* C17: after any close() call the session is closed, and a close() call on
\* an executor that is already closed changes nothing (its session stays
\* closed, the request state is untouched) and raises nothing, however
\* often it is repeated.
C17_CloseIdempotent ==
    /\ [](closes > 0 => rest_session = "closed")
    /\ [][(closes' > closes /\ rest_session = "closed") =>
              /\ rest_session' = "closed"
              /\ closed_pc' = closed_pc
              /\ RequestState' = RequestState]_vars

C17_Witness ==
    /\ closes = MaxCloses
    /\ closes >= 2
    /\ rest_session = "closed"

C19_TimeoutRetried ==
    (/\ rest_pc = "done"
     /\ result = "raised"
     /\ Len(outcomes) > 0
     /\ outcomes[Len(outcomes)] = "timeout") =>
        Len(attempts) = max_retries + 1

\* C20: when the logical request ends with the error of an attempt, that
\* error is the one of the last attempt made, whatever the earlier attempts
\* failed with.
C20_LastCause ==
    (/\ rest_pc = "done"
     /\ result = "raised"
     /\ Len(outcomes) > 0
     /\ ~Succeeds(outcomes[Len(outcomes)])) =>
        /\ Len(outcomes) = Len(attempts)
        /\ cause = Len(attempts)

C20_Witness ==
    /\ rest_pc = "done"
    /\ result = "raised"
    /\ max_retries = 2
    /\ outcomes = <<"http_error", "net_error", "http_error">>
    /\ cause = 3

\* C21: the receive loop of a Connected manager (it reads the open socket
\* that is self._ws) never ends into the return of _connect: when the loop
\* is left, it is left for a new connect attempt.
C21_DisconnectReconnects ==
    [][\A t \in Tasks :
           (/\ pc[t] = "recv"
            /\ it[t] = ws
            /\ sock_state[ws] = "open"
            /\ Solo(t)) =>
               pc'[t] # "finally"]_vars

\* C22: with a connected callback set, a task is in the receive loop of a
\* socket only after the connected callback of that socket's establishment
\* has been invoked and has returned.
C22_CallbackBeforeFrames ==
    \A t \in Tasks :
        (inited /\ pc[t] \in {"recv", "handler"} /\ it[t] # 0) =>
            it[t] \in cb_done

\* C23: a handler invocation is running exactly while a TEXT or BINARY frame
\* is being handled; a TEXT frame is with the text handler, passed as the
\* parsed JSON value when it parses and as the raw string when not, a BINARY
\* frame is with the binary handler, passed as it came; an invocation
\* starts only from the loop, for the frame just read, and when it ends the
\* task is back in the loop or in the except clause, not in an invocation
\* for the same frame again.
C23_FrameConsumedOnce ==
    /\ [](\A t \in Tasks :
              /\ (pc[t] = "handler") = (call[t] # NoCall)
              /\ (pc[t] = "handler") = (handling[t] # "none")
              /\ handling[t] = "TEXT" =>
                     /\ call[t].handler = "process_callback"
                     /\ call[t].arg = IF call[t].parses THEN "json" ELSE "raw"
              /\ handling[t] = "BINARY" =>
                     /\ call[t].handler = "process_binary_callback"
                     /\ call[t].arg = "bytes")
    /\ [][\A t \in Tasks :
              /\ (inited /\ handling[t] = "none" /\ handling'[t] # "none") =>
                     /\ pc[t] = "recv"
                     /\ pc'[t] = "handler"
              /\ pc[t] = "handler" =>
                     \/ pc'[t] = "handler" /\ call'[t] = call[t]
                     \/ pc'[t] \in {"recv", "except_sleep"} /\ call'[t] = NoCall]_vars

C23_Witness ==
    /\ inited
    /\ pc["conn"] = "handler"
    /\ handling["conn"] = "TEXT"
    /\ call["conn"] = [handler |-> "process_callback", arg |-> "raw", parses |-> FALSE]

\* C24: a dispatch that is between two callbacks of its `for` loop goes on
\* to the next callback or back to recv(): it never ends in the loop's
\* except clause, which drops the connection.
C24_DispatchSurvivesSubscribe ==
    [][\A c \in Calls :
           call_pc[c] = "iter" => call_pc'[c] # "disconnect"]_vars

\* C25: when the finally clause of a _connect() invocation has run, the
\* session that invocation created is closed, and no session of another
\* invocation whose socket is open or being opened was closed by it.
C25_OwnSessionReleased ==
    [][\A t \in Tasks :
           (pc[t] = "finally" /\ <<pc[t], stack[t]>>' # <<pc[t], stack[t]>>) =>
               /\ sess_state'[own[t]] = "closed"
               /\ \A k \in Socks :
                      (k # own[t] /\ SockLive(k)) => sess_state'[k] = sess_state[k]]_vars

\* The legacy manager stands in _check_connection() after a connection
\* attempt failed or after its receive loop ended.
LegacyDisconnected == l_pc = "check" /\ l_why \in {"failed", "ended"}

\* C26: the legacy manager attempts to reconnect after every failed connection
\* attempt, the very first one included, and after its receive loop ends: the
\* step it takes from _check_connection() then is a new connection attempt.
C26_LegacyReconnects ==
    [][LegacyDisconnected => l_pc' = "connecting"]_vars

====
